---- MODULE Spec2Model ----
(***************************************************************************)
(* Model of dexlite-core: the HyperLiquid price adapter (GetPrice), the    *)
(* coin_prices store (GORM soft-delete model), the price fetcher, the      *)
(* cleanup worker, the /api/prices/:coin handler and main's lifecycle.     *)
(*                                                                         *)
(* Strings are tuples of one-character strings so that strings.ToUpper and *)
(* strconv.ParseFloat are computed character by character.                 *)
(***************************************************************************)
EXTENDS Integers, Sequences, FiniteSets, TLC

VARIABLES
    req_status,   \* adapter call under study: HTTP status of the upstream response
    req_body,     \* ... its payload
    req_coin,     \* ... the requested symbol
    gp_res,       \* ... what GetPrice returned (NoResult before the call)
    gp_res2,      \* ... what a second call on the same response returned
    now,          \* time.Now(), in days
    store,        \* the coin_prices table, in insertion order
    m_pc,         \* main's position
    m_log,        \* how main's two shutdown waits ended
    ctx_done,     \* the workers' context has been cancelled
    wg,           \* the WaitGroup counter
    sig_notify,   \* signal.Notify has registered sigChan
    sig_pending,  \* a signal is buffered in sigChan
    srv,          \* the HTTP server goroutine
    f_pc,         \* PriceFetcher.Start goroutine
    f_tick,       \* a tick was buffered in the fetcher's ticker.C during its cycle
    f_idx,        \* position of the running fetchPrices in pf.coins (0: none)
    f_reqs,       \* allMids requests posted by the current (or last) fetchPrices
    f_log,        \* what fetchPrices logged for the coin it handled last
    c_pc,         \* CleanupWorker.Start goroutine
    c_tick,       \* a tick was buffered in the cleanup worker's ticker.C during cleanup
    c_log,        \* what the last cleanup() run did and logged
    h_pc,         \* the in-flight GetPriceComparison request
    h_coin,       \* ... its coin parameter
    h_cutoff,     \* ... its twentyFourHoursAgo
    h_count,      \* ... its count
    h_reads,      \* ... store reads it has executed
    h_resp,       \* ... its response
    hist          \* history: "same" after a cleanup run that succeeded, "later"
                  \* once the clock has advanced since, "none" once a row has
                  \* been written since (or a run failed, or none has run)

adapterVars == <<req_status, req_body, req_coin, gp_res, gp_res2>>
storeVars   == <<now, store>>
mainVars    == <<m_pc, m_log, ctx_done, wg, sig_notify, sig_pending, srv>>
fetchVars   == <<f_pc, f_tick, f_idx, f_reqs, f_log>>
cleanVars   == <<c_pc, c_tick, c_log>>
handlerVars == <<h_pc, h_coin, h_cutoff, h_count, h_reads, h_resp>>
vars == <<adapterVars, storeVars, mainVars, fetchVars, cleanVars, handlerVars, hist>>

----------------------------------------------------------------------------
(* Strings *)

BTC  == <<"B", "T", "C">>
ETH  == <<"E", "T", "H">>
SOL  == <<"S", "O", "L">>
ARB  == <<"A", "R", "B">>
AVAX == <<"A", "V", "A", "X">>
btc  == <<"b", "t", "c">>
Btc  == <<"B", "t", "c">>
EmptyStr == <<>>

F_data  == <<"d", "a", "t", "a">>
F_mids  == <<"m", "i", "d", "s">>
F_meta  == <<"m", "e", "t", "a">>
F_midPx == <<"m", "i", "d", "P", "x">>

LowerLetters == <<"a","b","c","d","e","f","g","h","i","j","k","l","m",
                  "n","o","p","q","r","s","t","u","v","w","x","y","z">>
UpperLetters == <<"A","B","C","D","E","F","G","H","I","J","K","L","M",
                  "N","O","P","Q","R","S","T","U","V","W","X","Y","Z">>

UpperChar(c) ==
    IF \E i \in 1..26 : LowerLetters[i] = c
    THEN UpperLetters[CHOOSE i \in 1..26 : LowerLetters[i] = c]
    ELSE c

\* strings.ToUpper
ToUpper(s) == [i \in 1..Len(s) |-> UpperChar(s[i])]

----------------------------------------------------------------------------
(* strconv.ParseFloat on plain decimal literals, as a fixed-point value    *)
(* with FracDigits decimals (the coin_prices.price column is               *)
(* decimal(20,8)).                                                         *)

FracDigits == 8

DigitChars == <<"0","1","2","3","4","5","6","7","8","9">>

IsDigit(c) == \E i \in 1..10 : DigitChars[i] = c

DigitVal(c) == (CHOOSE i \in 1..10 : DigitChars[i] = c) - 1

RECURSIVE NatOf(_)
NatOf(s) ==
    IF Len(s) = 0 THEN 0
    ELSE 10 * NatOf(SubSeq(s, 1, Len(s) - 1)) + DigitVal(s[Len(s)])

RECURSIVE Pow10(_)
Pow10(n) == IF n = 0 THEN 1 ELSE 10 * Pow10(n - 1)

NoPrice == [neg |-> FALSE, int |-> 0, frac |-> 0]

ParseFloat(s) ==
    LET neg    == Len(s) > 0 /\ s[1] = "-"
        signed == Len(s) > 0 /\ s[1] \in {"-", "+"}
        body   == IF signed THEN SubSeq(s, 2, Len(s)) ELSE s
        dots   == {i \in 1..Len(body) : body[i] = "."}
        dot    == IF dots = {} THEN Len(body) + 1
                  ELSE CHOOSE i \in dots : \A j \in dots : i <= j
        ip     == SubSeq(body, 1, dot - 1)
        fp     == SubSeq(body, dot + 1, Len(body))
        wellformed ==
            /\ Cardinality(dots) <= 1
            /\ Len(ip) + Len(fp) > 0
            /\ \A i \in 1..Len(ip) : IsDigit(ip[i])
            /\ \A i \in 1..Len(fp) : IsDigit(fp[i])
            /\ Len(fp) <= FracDigits
    IN  IF wellformed
        THEN [err |-> FALSE,
              val |-> [neg |-> neg, int |-> NatOf(ip),
                       frac |-> NatOf(fp) * Pow10(FracDigits - Len(fp))]]
        ELSE [err |-> TRUE, val |-> NoPrice]

----------------------------------------------------------------------------
(* JSON values and encoding/json's Unmarshal into the adapter's types *)

NoObj == <<>>

JStr(s) == [t |-> "str", s |-> s, o |-> NoObj]
JObj(f) == [t |-> "obj", s |-> EmptyStr, o |-> f]
JNum    == [t |-> "num", s |-> EmptyStr, o |-> NoObj]
JBad    == [t |-> "bad", s |-> EmptyStr, o |-> NoObj]   \* bytes that are not JSON

Keys(v) == IF v.t = "obj" THEN DOMAIN v.o ELSE {}

\* encoding/json field matching: the exact name, else a case-insensitive match
FieldKeys(v, name) ==
    IF name \in Keys(v) THEN {name}
    ELSE {k \in Keys(v) : ToUpper(k) = ToUpper(name)}

HasField(v, name) == FieldKeys(v, name) # {}

Field(v, name) == v.o[CHOOSE k \in FieldKeys(v, name) : TRUE]

\* json.Unmarshal(bodyBytes, &map[string]string)
UnmarshalMids(v) ==
    IF v.t # "obj" THEN [err |-> TRUE, nil |-> TRUE, m |-> NoObj]
    ELSE [err |-> \E k \in DOMAIN v.o : v.o[k].t # "str",
          nil |-> FALSE,
          m   |-> [k \in {x \in DOMAIN v.o : v.o[x].t = "str"} |-> v.o[k].s]]

NilMids == [err |-> FALSE, nil |-> TRUE, m |-> NoObj]

\* mutant: the symbol map is read from "data" itself, not from "data"."mids"
UnmarshalWrappedNoMids(v) ==
    IF v.t # "obj" THEN [err |-> TRUE, nil |-> TRUE, m |-> NoObj]
    ELSE IF ~HasField(v, F_data) THEN NilMids
    ELSE UnmarshalMids(Field(v, F_data))

\* json.Unmarshal(bodyBytes, &WrappedAllMidsResponse): Data.Mids
UnmarshalWrapped(v) ==
    IF v.t # "obj" THEN [err |-> TRUE, nil |-> TRUE, m |-> NoObj]
    ELSE IF ~HasField(v, F_data) THEN NilMids
    ELSE LET d == Field(v, F_data)
         IN  IF d.t # "obj" THEN [err |-> TRUE, nil |-> TRUE, m |-> NoObj]
             ELSE IF ~HasField(d, F_mids) THEN NilMids
             ELSE UnmarshalMids(Field(d, F_mids))

\* one PerpInfo value: only MidPx is read by the adapter
UnmarshalPerpInfo(v) ==
    IF v.t # "obj" THEN [err |-> TRUE, midPx |-> EmptyStr]
    ELSE IF ~HasField(v, F_midPx) THEN [err |-> FALSE, midPx |-> EmptyStr]
    ELSE LET p == Field(v, F_midPx)
         IN  IF p.t # "str" THEN [err |-> TRUE, midPx |-> EmptyStr]
             ELSE [err |-> FALSE, midPx |-> p.s]

\* the Data map[string]PerpInfo field, as symbol -> MidPx
UnmarshalPerpMap(v) ==
    IF v.t # "obj" THEN [err |-> TRUE, nil |-> TRUE, m |-> NoObj]
    ELSE [err |-> \E k \in DOMAIN v.o : UnmarshalPerpInfo(v.o[k]).err,
          nil |-> FALSE,
          m   |-> [k \in {x \in DOMAIN v.o : ~UnmarshalPerpInfo(v.o[x]).err}
                     |-> UnmarshalPerpInfo(v.o[k]).midPx]]

\* json.Unmarshal(bodyBytes, &AllMidsResponse)
UnmarshalAllMids(v) ==
    IF v.t # "obj"
    THEN [err |-> TRUE, mids |-> NilMids, data |-> NilMids]
    ELSE LET mids == IF HasField(v, F_mids) THEN UnmarshalMids(Field(v, F_mids))
                     ELSE NilMids
             data == IF HasField(v, F_data) THEN UnmarshalPerpMap(Field(v, F_data))
                     ELSE NilMids
             metaErr == HasField(v, F_meta) /\ Field(v, F_meta).t # "obj"
         IN  [err |-> mids.err \/ data.err \/ metaErr, mids |-> mids, data |-> data]

\* getMapKeys(genericResponse)
getMapKeys(v) == Keys(v)

----------------------------------------------------------------------------
(* GetPrice *)

NoResult == [kind |-> "none", price |-> NoPrice, avail |-> {}]

Found(p)     == [kind |-> "ok", price |-> p, avail |-> {}]
Failed(kind) == [kind |-> kind, price |-> NoPrice, avail |-> {}]
NotFound(ks) == [kind |-> "not_found", price |-> NoPrice, avail |-> ks]

\* mutant: the case-insensitive scan without the exact-case lookup before it
MatchKeysScanOnly(m, coin) ==
    {k \in DOMAIN m : ToUpper(k) = ToUpper(coin)}

\* the keys one candidate mapping offers for coin: the exact key when it is
\* present, else every key of the range loop that equals it in upper case
\* (Go's map iteration order decides which of them is met first)
MatchKeys(m, coin) ==
    IF coin \in DOMAIN m THEN {coin}
    ELSE {k \in DOMAIN m : ToUpper(k) = ToUpper(coin)}

\* the returns of one format block once a key has matched
Returns(m, coin) ==
    {IF ParseFloat(m[k]).err THEN Failed("parse") ELSE Found(ParseFloat(m[k]).val)
        : k \in MatchKeys(m, coin)}

StatusOK   == 200   \* http.StatusOK
NoResponse == 0     \* c.client.Do(req) failed: there is no response

\* everything GetPrice can return for the outcome of its request
GetPrice(status, body, coin) ==
    LET f1 == UnmarshalMids(body)
        f2 == UnmarshalWrapped(body)
        f3 == UnmarshalAllMids(body)
        use1  == ~f1.err /\ Cardinality(DOMAIN f1.m) > 0
        use2  == ~f2.err /\ ~f2.nil
        use3a == ~f3.err /\ ~f3.mids.nil
        use3b == ~f3.err /\ ~f3.data.nil
    IN  IF status = NoResponse THEN {Failed("transport")}
        ELSE IF status # StatusOK THEN {Failed("status")}
        ELSE IF use1 /\ MatchKeys(f1.m, coin) # {} THEN Returns(f1.m, coin)
        ELSE IF use2 /\ MatchKeys(f2.m, coin) # {} THEN Returns(f2.m, coin)
        ELSE IF use3a /\ MatchKeys(f3.mids.m, coin) # {} THEN Returns(f3.mids.m, coin)
        ELSE IF use3b /\ MatchKeys(f3.data.m, coin) # {} THEN Returns(f3.data.m, coin)
        ELSE IF body.t = "obj" THEN {NotFound(getMapKeys(body))}
        ELSE {Failed("not_found_raw")}

----------------------------------------------------------------------------
(* Bounds *)

MaxTime == 3      \* the clock stops advancing here
MaxRows == 2      \* the store accepts no insert beyond this many rows

----------------------------------------------------------------------------
(* The coin_prices table under GORM's soft-delete scope *)

Null == -1

WindowDays    == 1    \* 24 * time.Hour
RetentionDays == 2    \* AddDate(0, 0, -2)

\* mutant: the write is an upsert that replaces the coin's latest row
CreateUpsert(st, coin, price, t) ==
    IF \E i \in DOMAIN st : st[i].coin = coin
    THEN [i \in DOMAIN st |->
            IF st[i].coin = coin
            THEN [st[i] EXCEPT !.price = price, !.created_at = t, !.updated_at = t]
            ELSE st[i]]
    ELSE Append(st, [id |-> Len(st) + 1, coin |-> coin, price |-> price,
                     created_at |-> t, updated_at |-> t, deleted_at |-> Null])

\* db.Create(&coinPrice): CreatedAt and UpdatedAt are set at insert time
Create(st, coin, price, t) ==
    Append(st, [id |-> Len(st) + 1, coin |-> coin, price |-> price,
                created_at |-> t, updated_at |-> t, deleted_at |-> Null])

\* mutant: the Delete also touches rows that are already soft-deleted
DeleteScopeUnscoped(st, cutoff) ==
    {i \in DOMAIN st : st[i].created_at < cutoff}

\* mutant: the Delete also touches the rows created at the cutoff
DeleteScopeInclusive(st, cutoff) ==
    {i \in DOMAIN st : st[i].created_at <= cutoff /\ st[i].deleted_at = Null}

\* rows a "created_at < ?" Delete touches: GORM adds deleted_at IS NULL
DeleteScope(st, cutoff) ==
    {i \in DOMAIN st : st[i].created_at < cutoff /\ st[i].deleted_at = Null}

\* mutant: the Delete removes the rows (as on a model without DeletedAt)
HardDelete(st, cutoff, t) ==
    SelectSeq(st, LAMBDA r : ~(r.created_at < cutoff /\ r.deleted_at = Null))

\* db.Where("created_at < ?", cutoff).Delete(&models.CoinPrice{}) run at time t
SoftDelete(st, cutoff, t) ==
    [i \in DOMAIN st |->
        IF i \in DeleteScope(st, cutoff) THEN [st[i] EXCEPT !.deleted_at = t]
        ELSE st[i]]

RowsAffected(st, cutoff) == Cardinality(DeleteScope(st, cutoff))

\* mutant: the window excludes the rows created at the cutoff
QueryScopeStrict(st, coin, cutoff) ==
    {i \in DOMAIN st : /\ st[i].coin = coin
                       /\ st[i].created_at > cutoff
                       /\ st[i].deleted_at = Null}

\* rows of Where("coin = ? AND created_at >= ?", coin, t) on a soft-delete model
QueryScope(st, coin, cutoff) ==
    {i \in DOMAIN st : /\ st[i].coin = coin
                       /\ st[i].created_at >= cutoff
                       /\ st[i].deleted_at = Null}

\* query.Model(&models.CoinPrice{}).Count(&count)
CountRows(st, coin, cutoff) == Cardinality(QueryScope(st, coin, cutoff))

\* mutant: Find without the Order clause
FindRowsUnordered(st, coin, cutoff) ==
    LET M == QueryScope(st, coin, cutoff)
        n == Cardinality(M)
    IN  {[k \in 1..n |-> st[p[k]]] :
            p \in {q \in [1..n -> M] : \A a, b \in 1..n : a # b => q[a] # q[b]}}

\* query.Order("created_at DESC").Find(&prices): every order the database may
\* return (rows of equal created_at come in any order)
FindRows(st, coin, cutoff) ==
    LET M == QueryScope(st, coin, cutoff)
        n == Cardinality(M)
    IN  {[k \in 1..n |-> st[p[k]]] :
            p \in {q \in [1..n -> M] :
                     /\ \A a, b \in 1..n : a # b => q[a] # q[b]
                     /\ \A a \in 1..(n - 1) :
                            st[q[a]].created_at >= st[q[a + 1]].created_at}}

----------------------------------------------------------------------------
(* The upstream feed seen by the fetch cycles *)

P1 == <<"6","5","0","0","0",".","1","2","3","4","5","6","7","8">>
P2 == <<"3","0","0","0",".","5">>
PBad == <<"a","b","c">>

coins == <<BTC, ETH, SOL, ARB, AVAX>>

\* the symbols the upstream lists; the other tracked symbols are "not found"
FeedCoins == {BTC, ETH}

FlatFeed == JObj([k \in FeedCoins |-> JStr(P1)])

FeedResponses ==
    {[status |-> 200, body |-> FlatFeed],
     [status |-> 500, body |-> JBad]}

----------------------------------------------------------------------------
(* Process state after construction *)

NoResp == [status |-> 0, coin |-> EmptyStr, prices |-> <<>>, count |-> 0]
NoLog  == [err |-> FALSE, affected |-> 0]

\* fetchPrices' log line for one coin: "Error fetching price", "Error saving
\* price" or "Successfully saved price" with the price
Attempt(coin, kind, price) == [coin |-> coin, kind |-> kind, price |-> price]
NoAttempt == Attempt(EmptyStr, "none", NoPrice)

ProcessInit ==
    /\ now = 0
    /\ store = <<>>
    /\ m_pc = "migrate"
    /\ m_log = [drain |-> "none", join |-> "none"]
    /\ ctx_done = FALSE
    /\ wg = 0
    /\ sig_notify = FALSE
    /\ sig_pending = FALSE
    /\ srv = "none"
    /\ f_pc = "none" /\ f_tick = FALSE /\ f_idx = 0
    /\ f_reqs = 0 /\ f_log = NoAttempt
    /\ c_pc = "none" /\ c_tick = FALSE /\ c_log = NoLog
    /\ h_pc = "idle" /\ h_coin = EmptyStr /\ h_cutoff = 0 /\ h_count = 0
    /\ h_reads = 0 /\ h_resp = NoResp
    /\ hist = "none"

AdapterIdle ==
    /\ req_status = 200 /\ req_body = JBad /\ req_coin = EmptyStr
    /\ gp_res = NoResult /\ gp_res2 = NoResult

Init == ProcessInit /\ AdapterIdle

\* the process has not ended (return from main, log.Fatalf, or a signal's
\* default action)
Alive == m_pc \notin {"exit", "fatal", "killed"}

----------------------------------------------------------------------------
(* time.Now() advancing *)

Advance ==
    /\ Alive
    /\ now < MaxTime
    /\ now' = now + 1
    /\ hist' = IF hist = "same" THEN "later" ELSE hist
    /\ UNCHANGED <<store, adapterVars, mainVars, fetchVars, cleanVars, handlerVars>>

----------------------------------------------------------------------------
(* PriceFetcher *)

\* what a loop finds in ticker.C (capacity 1) when it returns to its select:
\* the ticker may have fired during the cycle. While the context is live a
\* buffered tick is received like one that arrives later, so it is recorded
\* only once the context is cancelled, where it competes with ctx.Done().
TickBuffered == IF ctx_done THEN BOOLEAN ELSE {FALSE}

\* GetPrice for every tracked coin against every upstream response
FeedResults ==
    [r \in FeedResponses, c \in {coins[i] : i \in 1..Len(coins)} |->
        GetPrice(r.status, r.body, c)]

\* mutant: the loop over pf.coins breaks at the first coin that fails
fetchPricesAbortOnError ==
    /\ Alive
    /\ f_idx \in 1..Len(coins)
    /\ m_pc = "initfetch" \/ f_pc = "fetching"
    /\ \E r \in FeedResponses, saved \in BOOLEAN :
         \E res \in FeedResults[r, coins[f_idx]] :
            LET ok   == res.kind = "ok" /\ saved /\ Len(store) < MaxRows
                last == f_idx = Len(coins) \/ ~ok
            IN  /\ IF ok
                   THEN /\ store' = Create(store, coins[f_idx], res.price, now)
                        /\ f_log' = Attempt(coins[f_idx], "saved", res.price)
                        /\ hist' = "none"
                   ELSE /\ f_log' = Attempt(coins[f_idx],
                                IF res.kind = "ok" THEN "save_err" ELSE "fetch_err",
                                NoPrice)
                        /\ UNCHANGED <<store, hist>>
                /\ f_idx' = IF last THEN 0 ELSE f_idx + 1
                /\ m_pc' = IF last /\ m_pc = "initfetch" THEN "spawn" ELSE m_pc
                /\ f_pc' = IF last /\ f_pc = "fetching" THEN "select" ELSE f_pc
                /\ IF last /\ f_pc = "fetching"
                   THEN f_tick' \in TickBuffered
                   ELSE f_tick' = f_tick
    /\ f_reqs' = f_reqs + 1
    /\ UNCHANGED <<now, m_log, ctx_done, wg, sig_notify, sig_pending, srv,
                   adapterVars, cleanVars, handlerVars>>

\* one iteration of fetchPrices' loop over pf.coins, run by main (the initial
\* synchronous fetch) or by the fetcher goroutine; after the last coin
\* FetchPrices returns to its caller
fetchPrices ==
    /\ Alive
    /\ f_idx \in 1..Len(coins)
    /\ m_pc = "initfetch" \/ f_pc = "fetching"
    /\ \E r \in FeedResponses, saved \in BOOLEAN :
         \E res \in FeedResults[r, coins[f_idx]] :
            IF res.kind # "ok"
            THEN /\ f_log' = Attempt(coins[f_idx], "fetch_err", NoPrice)
                 /\ UNCHANGED <<store, hist>>
            ELSE IF saved /\ Len(store) < MaxRows
            THEN /\ store' = Create(store, coins[f_idx], res.price, now)
                 /\ f_log' = Attempt(coins[f_idx], "saved", res.price)
                 /\ hist' = "none"
            ELSE /\ f_log' = Attempt(coins[f_idx], "save_err", NoPrice)
                 /\ UNCHANGED <<store, hist>>
    /\ f_reqs' = f_reqs + 1
    /\ f_idx' = IF f_idx = Len(coins) THEN 0 ELSE f_idx + 1
    /\ m_pc' = IF f_idx = Len(coins) /\ m_pc = "initfetch" THEN "spawn" ELSE m_pc
    /\ f_pc' = IF f_idx = Len(coins) /\ f_pc = "fetching" THEN "select" ELSE f_pc
    /\ IF f_idx = Len(coins) /\ f_pc = "fetching"
       THEN f_tick' \in TickBuffered
       ELSE f_tick' = f_tick
    /\ UNCHANGED <<now, m_log, ctx_done, wg, sig_notify, sig_pending, srv,
                   adapterVars, cleanVars, handlerVars>>

\* Start: case <-ticker.C, on a tick buffered during the last cycle or on one
\* that arrives while the goroutine is parked in select (a goroutine parked
\* there when the context is cancelled is woken by ctx.Done() instead)
FetchLoopTick ==
    /\ Alive
    /\ f_pc = "select"
    /\ f_tick \/ ~ctx_done
    /\ f_tick' = FALSE
    /\ f_pc' = "fetching"
    /\ f_idx' = 1
    /\ f_reqs' = 0
    /\ UNCHANGED <<f_log, storeVars, adapterVars, mainVars, cleanVars, handlerVars, hist>>

\* mutant: the cancellation is looked at only when no tick is buffered
FetchLoopDoneAfterTicks ==
    /\ Alive
    /\ f_pc = "select"
    /\ ctx_done /\ ~f_tick
    /\ f_pc' = "done"
    /\ f_tick' = FALSE
    /\ wg' = wg - 1
    /\ UNCHANGED <<f_idx, f_reqs, f_log, m_pc, m_log, ctx_done, sig_notify, sig_pending, srv,
                   storeVars, adapterVars, cleanVars, handlerVars, hist>>

\* Start: case <-ctx.Done()
FetchLoopDone ==
    /\ Alive
    /\ f_pc = "select"
    /\ ctx_done
    /\ f_pc' = "done"
    /\ f_tick' = FALSE
    /\ wg' = wg - 1
    /\ UNCHANGED <<f_idx, f_reqs, f_log, m_pc, m_log, ctx_done, sig_notify, sig_pending, srv,
                   storeVars, adapterVars, cleanVars, handlerVars, hist>>

----------------------------------------------------------------------------
(* CleanupWorker *)

\* mutant: the cutoff is two hours back instead of two days (the clock is in
\* days)
cleanupTwoHours ==
    /\ Alive
    /\ c_pc \in {"initial", "cleaning"}
    /\ LET cutoff == now
       IN  \E dberr \in BOOLEAN :
            /\ store' = IF dberr THEN store ELSE SoftDelete(store, cutoff, now)
            /\ c_log' = [err |-> dberr,
                         affected |-> IF dberr THEN 0 ELSE RowsAffected(store, cutoff)]
            /\ hist' = IF dberr THEN "none" ELSE "same"
    /\ c_pc' = "select"
    /\ c_tick' \in TickBuffered
    /\ UNCHANGED <<now, adapterVars, mainVars, fetchVars, handlerVars>>

\* cleanup(), called on start and on every tick
cleanup ==
    /\ Alive
    /\ c_pc \in {"initial", "cleaning"}
    /\ LET cutoff == now - RetentionDays
       IN  \E dberr \in BOOLEAN :
            /\ store' = IF dberr THEN store ELSE SoftDelete(store, cutoff, now)
            /\ c_log' = [err |-> dberr,
                         affected |-> IF dberr THEN 0 ELSE RowsAffected(store, cutoff)]
            /\ hist' = IF dberr THEN "none" ELSE "same"
    /\ c_pc' = "select"
    /\ c_tick' \in TickBuffered
    /\ UNCHANGED <<now, adapterVars, mainVars, fetchVars, handlerVars>>

\* Start: case <-ticker.C (as for the fetcher)
CleanupLoopTick ==
    /\ Alive
    /\ c_pc = "select"
    /\ c_tick \/ ~ctx_done
    /\ c_tick' = FALSE
    /\ c_pc' = "cleaning"
    /\ UNCHANGED <<c_log, storeVars, adapterVars, mainVars, fetchVars, handlerVars, hist>>

\* Start: case <-ctx.Done()
CleanupLoopDone ==
    /\ Alive
    /\ c_pc = "select"
    /\ ctx_done
    /\ c_pc' = "done"
    /\ c_tick' = FALSE
    /\ wg' = wg - 1
    /\ UNCHANGED <<c_log, m_pc, m_log, ctx_done, sig_notify, sig_pending, srv,
                   storeVars, adapterVars, fetchVars, handlerVars, hist>>

----------------------------------------------------------------------------
(* PriceHandler.GetPriceComparison: one request in flight at a time *)

QueryCoins == {EmptyStr, BTC}

PriceResponse(row) ==
    [coin |-> row.coin, price |-> row.price, created_at |-> row.created_at]

\* mutant: the handler without its coin == "" check
HandlerBeginUnchecked ==
    /\ Alive
    /\ srv = "listening"
    /\ h_pc = "idle"
    /\ \E coin \in QueryCoins :
         /\ h_coin' = coin
         /\ h_resp' = h_resp
         /\ h_pc' = "count"
         /\ h_cutoff' = now - WindowDays
    /\ UNCHANGED <<h_count, h_reads, storeVars, adapterVars, mainVars, fetchVars, cleanVars, hist>>

\* the handler up to its first store read: the coin check and the cutoff
HandlerBegin ==
    /\ Alive
    /\ srv = "listening"
    /\ h_pc = "idle"
    /\ \E coin \in QueryCoins :
         /\ h_coin' = coin
         /\ IF coin = EmptyStr
            THEN /\ h_resp' = [NoResp EXCEPT !.status = 400]
                 /\ h_pc' = "done"
                 /\ h_cutoff' = h_cutoff
            ELSE /\ h_resp' = h_resp
                 /\ h_pc' = "count"
                 /\ h_cutoff' = now - WindowDays
    /\ UNCHANGED <<h_count, h_reads, storeVars, adapterVars, mainVars, fetchVars, cleanVars, hist>>

\* query.Model(&models.CoinPrice{}).Count(&count)
HandlerCount ==
    /\ Alive
    /\ h_pc = "count"
    /\ h_reads' = h_reads + 1
    /\ \E dberr \in BOOLEAN :
         IF dberr
         THEN /\ h_resp' = [NoResp EXCEPT !.status = 500]
              /\ h_pc' = "done"
              /\ h_count' = h_count
         ELSE /\ h_count' = CountRows(store, h_coin, h_cutoff)
              /\ h_pc' = "find"
              /\ h_resp' = h_resp
    /\ UNCHANGED <<h_coin, h_cutoff, storeVars, adapterVars, mainVars, fetchVars, cleanVars, hist>>

\* query.Order("created_at DESC").Find(&prices) and the 200 response
HandlerFind ==
    /\ Alive
    /\ h_pc = "find"
    /\ h_reads' = h_reads + 1
    /\ \/ h_resp' = [NoResp EXCEPT !.status = 500]
       \/ \E rows \in FindRows(store, h_coin, h_cutoff) :
             h_resp' = [status |-> 200,
                        coin   |-> h_coin,
                        prices |-> [i \in 1..Len(rows) |-> PriceResponse(rows[i])],
                        count  |-> h_count]
    /\ h_pc' = "done" /\ h_cutoff' = 0 /\ h_count' = 0
    /\ UNCHANGED <<h_coin, storeVars, adapterVars, mainVars, fetchVars, cleanVars, hist>>

\* the response has been written; the connection is idle again
HandlerReturn ==
    /\ Alive
    /\ h_pc = "done"
    /\ h_pc' = "idle" /\ h_coin' = EmptyStr /\ h_cutoff' = 0 /\ h_count' = 0
    /\ h_reads' = 0 /\ h_resp' = NoResp
    /\ UNCHANGED <<storeVars, adapterVars, mainVars, fetchVars, cleanVars, hist>>

----------------------------------------------------------------------------
(* main *)

others == <<storeVars, adapterVars, fetchVars, cleanVars, handlerVars, hist>>

\* mutant: main goes on to start the workers without the initial FetchPrices
MainMigrateNoFetch ==
    /\ m_pc = "migrate"
    /\ \E ok \in BOOLEAN :
         /\ m_pc' = IF ok THEN "spawn" ELSE "fatal"
         /\ f_idx' = 0
    /\ UNCHANGED <<m_log, ctx_done, wg, sig_notify, sig_pending, srv, f_pc, f_tick,
                   f_reqs, f_log, storeVars, adapterVars, cleanVars, handlerVars, hist>>

\* db.NewPostgres() and AutoMigrate: a failure ends the process
MainMigrate ==
    /\ m_pc = "migrate"
    /\ \E ok \in BOOLEAN :
         /\ m_pc' = IF ok THEN "initfetch" ELSE "fatal"
         /\ f_idx' = IF ok THEN 1 ELSE 0
    /\ UNCHANGED <<m_log, ctx_done, wg, sig_notify, sig_pending, srv, f_pc, f_tick,
                   f_reqs, f_log, storeVars, adapterVars, cleanVars, handlerVars, hist>>

\* wg.Add(2) and the two worker goroutines
MainSpawn ==
    /\ m_pc = "spawn"
    /\ wg' = wg + 2
    /\ f_pc' = "select"
    /\ c_pc' = "initial"
    /\ m_pc' = "serve"
    /\ UNCHANGED <<m_log, ctx_done, sig_notify, sig_pending, srv, f_tick, f_idx,
                   f_reqs, f_log, c_tick, c_log, storeVars, adapterVars, handlerVars, hist>>

\* the echo setup, wg.Add(1) and the server goroutine
MainServe ==
    /\ m_pc = "serve"
    /\ wg' = wg + 1
    /\ srv' = "starting"
    /\ m_pc' = "notify"
    /\ UNCHANGED <<m_log, ctx_done, sig_notify, sig_pending, others>>

\* server.ListenAndServe() binding the port, or failing to
ServerListen ==
    /\ Alive
    /\ srv = "starting"
    /\ \E ok \in BOOLEAN :
         /\ srv' = IF ok THEN "listening" ELSE "stopped"
         /\ wg'  = IF ok THEN wg ELSE wg - 1
    /\ UNCHANGED <<m_pc, m_log, ctx_done, sig_notify, sig_pending, others>>

\* server.ListenAndServe() returning http.ErrServerClosed after Shutdown
ServerClosed ==
    /\ Alive
    /\ srv = "closing"
    /\ srv' = "stopped"
    /\ wg' = wg - 1
    /\ UNCHANGED <<m_pc, m_log, ctx_done, sig_notify, sig_pending, others>>

\* signal.Notify(sigChan, os.Interrupt, syscall.SIGTERM)
MainNotify ==
    /\ m_pc = "notify"
    /\ sig_notify' = TRUE
    /\ m_pc' = "wait"
    /\ UNCHANGED <<m_log, ctx_done, wg, sig_pending, srv, others>>

\* SIGINT or SIGTERM delivered to the process: buffered in sigChan once
\* Notify has run, the runtime's default action (termination) before
Signal ==
    /\ Alive
    /\ IF sig_notify
       THEN /\ sig_pending' = TRUE
            /\ m_pc' = m_pc
       ELSE /\ m_pc' = "killed"
            /\ sig_pending' = sig_pending
    /\ UNCHANGED <<m_log, ctx_done, wg, sig_notify, srv, others>>

\* <-sigChan
MainReceive ==
    /\ m_pc = "wait"
    /\ sig_pending
    /\ sig_pending' = FALSE
    /\ m_pc' = "cancel"
    /\ UNCHANGED <<m_log, ctx_done, wg, sig_notify, srv, others>>

\* cancel()
MainCancel ==
    /\ m_pc = "cancel"
    /\ ctx_done' = TRUE
    /\ m_pc' = "shutdown"
    /\ UNCHANGED <<m_log, wg, sig_notify, sig_pending, srv, others>>

\* server.Shutdown(shutdownCtx): the listener is closed
MainShutdown ==
    /\ m_pc = "shutdown"
    /\ srv' = IF srv \in {"starting", "listening"} THEN "closing" ELSE srv
    /\ m_pc' = "drain"
    /\ UNCHANGED <<m_log, ctx_done, wg, sig_notify, sig_pending, others>>

\* Shutdown returns nil: no request is in flight
MainDrained ==
    /\ m_pc = "drain"
    /\ h_pc = "idle"
    /\ m_log' = [m_log EXCEPT !.drain = "ok"]
    /\ m_pc' = "join"
    /\ UNCHANGED <<ctx_done, wg, sig_notify, sig_pending, srv, others>>

\* Shutdown returns the context's error: the 10s deadline has passed
MainDrainTimeout ==
    /\ m_pc = "drain"
    /\ m_log' = [m_log EXCEPT !.drain = "timeout"]
    /\ m_pc' = "join"
    /\ UNCHANGED <<ctx_done, wg, sig_notify, sig_pending, srv, others>>

\* case <-done: wg.Wait() has returned
MainJoined ==
    /\ m_pc = "join"
    /\ wg = 0
    /\ m_log' = [m_log EXCEPT !.join = "ok"]
    /\ m_pc' = "exit"
    /\ UNCHANGED <<ctx_done, wg, sig_notify, sig_pending, srv, others>>

\* mutant: the join without its deadline
MainJoinUnbounded ==
    /\ m_pc = "join"
    /\ wg = 0
    /\ m_log' = [m_log EXCEPT !.join = "timeout"]
    /\ m_pc' = "exit"
    /\ UNCHANGED <<ctx_done, wg, sig_notify, sig_pending, srv, others>>

\* case <-time.After(30 * time.Second)
MainJoinTimeout ==
    /\ m_pc = "join"
    /\ m_log' = [m_log EXCEPT !.join = "timeout"]
    /\ m_pc' = "exit"
    /\ UNCHANGED <<ctx_done, wg, sig_notify, sig_pending, srv, others>>

----------------------------------------------------------------------------
(* The process *)

Next ==
    \/ Advance
    \/ Signal
    \/ MainMigrate
    \/ MainSpawn
    \/ MainServe
    \/ MainNotify
    \/ MainReceive
    \/ MainCancel
    \/ MainShutdown
    \/ MainDrained
    \/ MainDrainTimeout
    \/ MainJoined
    \/ MainJoinTimeout
    \/ ServerListen
    \/ ServerClosed
    \/ fetchPrices
    \/ FetchLoopTick
    \/ FetchLoopDone
    \/ cleanup
    \/ CleanupLoopTick
    \/ CleanupLoopDone
    \/ HandlerBegin
    \/ HandlerCount
    \/ HandlerFind
    \/ HandlerReturn

Spec == Init /\ [][Next]_vars

\* The running service while no signal arrives: main is parked in <-sigChan
\* with the workers and the listener started (the state the startup path
\* reaches when no call of the initial fetch stored a row).
Serving ==
    /\ now = 0
    /\ store = <<>>
    /\ m_pc = "wait"
    /\ m_log = [drain |-> "none", join |-> "none"]
    /\ ctx_done = FALSE
    /\ wg = 3
    /\ sig_notify = TRUE
    /\ sig_pending = FALSE
    /\ srv = "listening"
    /\ f_pc = "select" /\ f_tick = FALSE /\ f_idx = 0
    /\ f_reqs = Len(coins) /\ f_log = Attempt(coins[Len(coins)], "fetch_err", NoPrice)
    /\ c_pc = "initial" /\ c_tick = FALSE /\ c_log = NoLog
    /\ h_pc = "idle" /\ h_coin = EmptyStr /\ h_cutoff = 0 /\ h_count = 0
    /\ h_reads = 0 /\ h_resp = NoResp
    /\ hist = "none"

ServingNext ==
    \/ Advance
    \/ fetchPrices
    \/ FetchLoopTick
    \/ cleanup
    \/ CleanupLoopTick
    \/ HandlerBegin
    \/ HandlerCount
    \/ HandlerFind
    \/ HandlerReturn

ServingInit == Serving /\ AdapterIdle

SpecServing == ServingInit /\ [][ServingNext]_vars

\* The life of the process within one clock reading
LifeNext ==
    \/ Signal
    \/ MainMigrate
    \/ MainSpawn
    \/ MainServe
    \/ MainNotify
    \/ MainReceive
    \/ MainCancel
    \/ MainShutdown
    \/ MainDrained
    \/ MainDrainTimeout
    \/ MainJoined
    \/ MainJoinTimeout
    \/ ServerListen
    \/ ServerClosed
    \/ fetchPrices
    \/ FetchLoopTick
    \/ FetchLoopDone
    \/ cleanup
    \/ CleanupLoopTick
    \/ CleanupLoopDone
    \/ HandlerBegin
    \/ HandlerCount
    \/ HandlerFind
    \/ HandlerReturn

SpecLife == Init /\ [][LifeNext]_vars

\* main runs whenever it can, and its two deadlines expire; nothing is assumed
\* of the workers, of the requests in flight or of the signal's arrival
FairSpecLife ==
    /\ SpecLife
    /\ WF_vars(MainCancel)
    /\ WF_vars(MainShutdown)
    /\ WF_vars(MainDrainTimeout)
    /\ WF_vars(MainJoinTimeout)

\* The loops under their scheduling: a cycle that has begun runs to its end,
\* and a select that finds ctx.Done() ready again and again takes it at some
\* point (Go chooses uniformly among the ready cases). Nothing is assumed of
\* main, so no deadline of main's cuts a loop short. No request is sent.
LoopsNext ==
    \/ Signal
    \/ MainMigrate
    \/ MainSpawn
    \/ MainServe
    \/ MainNotify
    \/ MainReceive
    \/ MainCancel
    \/ MainShutdown
    \/ MainDrained
    \/ MainDrainTimeout
    \/ MainJoined
    \/ MainJoinTimeout
    \/ ServerListen
    \/ ServerClosed
    \/ fetchPrices
    \/ FetchLoopTick
    \/ FetchLoopDone
    \/ cleanup
    \/ CleanupLoopTick
    \/ CleanupLoopDone

FairSpecLoops ==
    /\ Init /\ [][LoopsNext]_vars
    /\ WF_vars(fetchPrices)
    /\ SF_vars(FetchLoopDone)
    /\ WF_vars(cleanup)
    /\ SF_vars(CleanupLoopDone)

----------------------------------------------------------------------------
(* GetPrice on its own: one call for every response of a bounded universe *)

SymbolKeys   == {BTC, btc, Btc, ETH}
PriceStrings == {P1, P2, PBad}

\* every symbol -> price-string mapping over SymbolKeys
MidsMaps == UNION {[K -> PriceStrings] : K \in SUBSET SymbolKeys}

Flat(m)        == JObj([k \in DOMAIN m |-> JStr(m[k])])
TopMids(m)     == JObj([k \in {F_mids} |-> Flat(m)])
WrappedMids(m) == JObj([k \in {F_data} |-> TopMids(m)])
DataFlat(m)    == JObj([k \in {F_data} |-> Flat(m)])
Perp(m)        == JObj([k \in {F_data} |->
                      JObj([c \in DOMAIN m |-> JObj([f \in {F_midPx} |-> JStr(m[c])])])])

Bodies ==
    {JBad, JNum, JObj([k \in {BTC} |-> JNum])}
    \cup {Flat(m) : m \in MidsMaps}
    \cup {TopMids(m) : m \in MidsMaps}
    \cup {WrappedMids(m) : m \in MidsMaps}
    \cup {DataFlat(m) : m \in MidsMaps}
    \cup {Perp(m) : m \in MidsMaps}

Statuses     == {StatusOK, 500, NoResponse}
RequestCoins == {BTC, ETH, SOL}

AdapterInit ==
    /\ req_status \in Statuses
    /\ req_body \in Bodies
    /\ req_coin \in RequestCoins
    /\ gp_res = NoResult /\ gp_res2 = NoResult

\* c.GetPrice(coin) against the response drawn
CallGetPrice ==
    /\ gp_res = NoResult
    /\ gp_res' \in GetPrice(req_status, req_body, req_coin)
    /\ UNCHANGED <<req_status, req_body, req_coin, gp_res2, storeVars, mainVars,
                   fetchVars, cleanVars, handlerVars, hist>>

\* c.GetPrice(coin) once more, against the same response
CallGetPriceAgain ==
    /\ gp_res # NoResult /\ gp_res2 = NoResult
    /\ gp_res2' \in GetPrice(req_status, req_body, req_coin)
    /\ UNCHANGED <<req_status, req_body, req_coin, gp_res, storeVars, mainVars,
                   fetchVars, cleanVars, handlerVars, hist>>

GetPriceInit == ProcessInit /\ AdapterInit

GetPriceNext == CallGetPrice \/ CallGetPriceAgain

SpecGetPrice == GetPriceInit /\ [][GetPriceNext]_vars

----------------------------------------------------------------------------
(* Response shapes, recognised on the payload itself *)

AllStr(v) == v.t = "obj" /\ \A k \in DOMAIN v.o : v.o[k].t = "str"

StrMap(v) == [k \in DOMAIN v.o |-> v.o[k].s]

\* {"BTC": "1.0", ...}
ShapeFlat(v) == AllStr(v)

\* {"mids": {"BTC": "1.0", ...}}
ShapeTopMids(v) ==
    v.t = "obj" /\ DOMAIN v.o = {F_mids} /\ AllStr(v.o[F_mids])

\* {"data": {"mids": {"BTC": "1.0", ...}}}
ShapeWrapped(v) ==
    v.t = "obj" /\ DOMAIN v.o = {F_data} /\ ShapeTopMids(v.o[F_data])

\* {"data": {"BTC": "1.0", ...}}
ShapeDataFlat(v) ==
    v.t = "obj" /\ DOMAIN v.o = {F_data} /\ AllStr(v.o[F_data])

\* {"data": {"BTC": {"midPx": "1.0"}, ...}}
ShapePerp(v) ==
    /\ v.t = "obj" /\ DOMAIN v.o = {F_data} /\ v.o[F_data].t = "obj"
    /\ \A c \in DOMAIN v.o[F_data].o :
          LET e == v.o[F_data].o[c]
          IN  e.t = "obj" /\ DOMAIN e.o = {F_midPx} /\ e.o[F_midPx].t = "str"

PerpMap(v) == [c \in DOMAIN v.o[F_data].o |-> v.o[F_data].o[c].o[F_midPx].s]

\* the payload's symbol -> price-string mapping
SymbolMapping(v) ==
    IF ShapeFlat(v) THEN StrMap(v)
    ELSE IF ShapeTopMids(v) THEN StrMap(v.o[F_mids])
    ELSE IF ShapeWrapped(v) THEN StrMap(v.o[F_data].o[F_mids])
    ELSE IF ShapeDataFlat(v) THEN StrMap(v.o[F_data])
    ELSE PerpMap(v)

\* the payload carries coin with price string p
Carries(v, coin, p) ==
    coin \in DOMAIN SymbolMapping(v) /\ SymbolMapping(v)[coin] = p

Called == gp_res # NoResult /\ req_status = StatusOK

Price65000 == [neg |-> FALSE, int |-> 65000, frac |-> 12345678]

\* C1 as stated: on a 200 response carrying BTC = "65000.12345678" in the flat
\* shape, in the flat map placed directly under "data", or in the
\* "data" -> symbol -> {midPx} shape, GetPrice("BTC") returns 65000.12345678
\* and no error.
C1_AsStated ==
    (/\ Called
     /\ req_coin = BTC
     /\ ShapeFlat(req_body) \/ ShapeDataFlat(req_body) \/ ShapePerp(req_body)
     /\ Carries(req_body, BTC, P1))
    => gp_res = Found(Price65000)

\* C1 amended: the same with the second shape being the flat map under
\* "data"."mids", the wrapped shape the adapter decodes.
C1_ThreeShapes ==
    (/\ Called
     /\ req_coin = BTC
     /\ ShapeFlat(req_body) \/ ShapeWrapped(req_body) \/ ShapePerp(req_body)
     /\ Carries(req_body, BTC, P1))
    => gp_res = Found(Price65000)

C1_Witness ==
    /\ Called
    /\ req_coin = BTC
    /\ ShapeWrapped(req_body)
    /\ Carries(req_body, BTC, P1)
    /\ gp_res = Found(Price65000)

\* the shapes the adapter decodes
Supported(v) ==
    ShapeFlat(v) \/ ShapeTopMids(v) \/ ShapeWrapped(v) \/ ShapePerp(v)

\* the keys of the payload's symbol mapping that equal coin up to case
Folded(v, coin) ==
    {k \in DOMAIN SymbolMapping(v) : ToUpper(k) = ToUpper(coin)}

\* C2: for a payload of a supported shape that holds the requested symbol
\* under no casing, GetPrice fails with an error that lists exactly the
\* symbols of the payload's symbol mapping.
C2_ListsSymbols ==
    (/\ Called
     /\ Supported(req_body)
     /\ Folded(req_body, req_coin) = {})
    => /\ gp_res.kind = "not_found"
       /\ gp_res.avail = DOMAIN SymbolMapping(req_body)

\* what a matched price string yields
Outcome(p) ==
    IF ParseFloat(p).err THEN Failed("parse") ELSE Found(ParseFloat(p).val)

\* C3: within the payload's symbol mapping the exact-case key wins; without
\* one, the result is that of a key equal to the symbol up to case.
C3_ExactFirst ==
    (Called /\ Supported(req_body))
    => LET m == SymbolMapping(req_body)
       IN  /\ req_coin \in DOMAIN m => gp_res = Outcome(m[req_coin])
           /\ (req_coin \notin DOMAIN m /\ Folded(req_body, req_coin) # {})
                => \E k \in Folded(req_body, req_coin) : gp_res = Outcome(m[k])

C3_Witness ==
    /\ Called
    /\ req_coin = BTC
    /\ ShapeFlat(req_body)
    /\ {BTC, btc} \subseteq DOMAIN SymbolMapping(req_body)
    /\ SymbolMapping(req_body)[BTC] = P2
    /\ SymbolMapping(req_body)[btc] = P1
    /\ gp_res = Found(ParseFloat(P2).val)

----------------------------------------------------------------------------
(* The query endpoint *)

\* a response's prices are, entry for entry, the rows of the index set rows
ExactlyRows(prices, st, rows) ==
    /\ Len(prices) = Cardinality(rows)
    /\ \E p \in [1..Len(prices) -> rows] :
          /\ \A a, b \in 1..Len(prices) : a # b => p[a] # p[b]
          /\ \A k \in 1..Len(prices) :
                /\ prices[k].coin = st[p[k]].coin
                /\ prices[k].price = st[p[k]].price
                /\ prices[k].created_at = st[p[k]].created_at

\* C4: a request for symbol s at time t uses the cutoff t - 24h, and its 200
\* response holds exactly the rows that, when the list is read, have coin = s,
\* created_at >= t - 24h and no deleted_at.
C4_QueryWindow ==
    [][/\ (h_pc = "idle" /\ h_pc' = "count") => h_cutoff' = now - WindowDays
       /\ (h_pc = "find" /\ h_resp'.status = 200)
            => /\ h_resp'.coin = h_coin
               /\ ExactlyRows(h_resp'.prices, store,
                      {i \in DOMAIN store : /\ store[i].coin = h_coin
                                            /\ store[i].created_at >= h_cutoff
                                            /\ store[i].deleted_at = Null})]_vars

\* a 200 response of one row for BTC while the store holds a second BTC row
\* that is older than the window
C4_Witness ==
    /\ h_pc = "done"
    /\ h_resp.status = 200
    /\ h_coin = BTC
    /\ Len(h_resp.prices) = 1
    /\ h_resp.count = 1
    /\ \E i \in DOMAIN store :
          /\ store[i].coin = BTC
          /\ store[i].deleted_at = Null
          /\ store[i].created_at < h_resp.prices[1].created_at
          /\ store[i].created_at < now - WindowDays

\* C5: the prices of a 200 response are in created_at order, newest first.
C5_NewestFirst ==
    h_resp.status = 200
    => \A k \in 1..(Len(h_resp.prices) - 1) :
          /\ h_resp.prices[k].created_at >= h_resp.prices[k + 1].created_at
          /\ h_resp.prices[k].created_at # h_resp.prices[k + 1].created_at
                => h_resp.prices[k].created_at > h_resp.prices[k + 1].created_at

C5_Witness ==
    /\ h_resp.status = 200
    /\ Len(h_resp.prices) = 2
    /\ h_resp.prices[1].created_at > h_resp.prices[2].created_at

\* C7: a request with an empty coin is answered 400 without a store read.
C7_EmptyCoin ==
    (h_pc # "idle" /\ h_coin = EmptyStr)
    => (h_pc = "done" /\ h_resp.status = 400 /\ h_reads = 0)

C7_Witness ==
    /\ h_pc = "done"
    /\ h_coin = EmptyStr
    /\ h_resp.status = 400
    /\ h_reads = 0
    /\ Len(store) > 0

----------------------------------------------------------------------------
(* Retention *)

\* a step that is a run of cleanup()
CleanupRuns == c_pc \in {"initial", "cleaning"} /\ c_pc' = "select"

\* C6 as stated: a run that follows a run with no row written in between
\* soft-deletes nothing and reports zero.
C6_AsStated ==
    [][(CleanupRuns /\ ~c_log'.err /\ hist \in {"same", "later"})
        => (c_log'.affected = 0 /\ store' = store)]_vars

\* C6 amended: ... with no row written in between and at the same clock
\* reading, so that both runs compute the same cutoff ...
C6_Idempotent ==
    [][(CleanupRuns /\ ~c_log'.err /\ hist = "same")
        => (c_log'.affected = 0 /\ store' = store)]_vars

\* after a second run that reported zero: rows were soft-deleted at this
\* clock reading and none was written at it
C6_Witness ==
    /\ hist = "same"
    /\ ~c_log.err
    /\ c_log.affected = 0
    /\ \E i \in DOMAIN store : store[i].deleted_at = now
    /\ \A i \in DOMAIN store : store[i].created_at < now

\* C10: a run at time t without store error soft-deletes every live row
\* created before t - 2 days, changes no row created at or after it, and
\* reports the number of rows it soft-deleted.
C10_RetentionCutoff ==
    [][(CleanupRuns /\ ~c_log'.err)
        => /\ Len(store') = Len(store)
           /\ \A i \in DOMAIN store :
                 /\ (store[i].deleted_at = Null
                        /\ store[i].created_at < now - RetentionDays)
                      => store'[i].deleted_at # Null
                 /\ store[i].created_at >= now - RetentionDays
                      => store'[i] = store[i]
           /\ c_log'.affected =
                 Cardinality({i \in DOMAIN store :
                    store[i].deleted_at = Null /\ store'[i].deleted_at # Null})]_vars

\* after a run that soft-deleted one row and kept the row created at the cutoff
C10_Witness ==
    /\ hist = "same"
    /\ ~c_log.err
    /\ c_log.affected = 1
    /\ \E i \in DOMAIN store : store[i].deleted_at = now
    /\ \E j \in DOMAIN store :
          store[j].created_at = now - RetentionDays /\ store[j].deleted_at = Null

----------------------------------------------------------------------------
(* Shutdown *)

SignalReceived == m_pc \in {"cancel", "shutdown", "drain", "join"}

\* C8: once main has received the signal, the process reaches its exit.
C8_ExitAfterSignal == SignalReceived ~> (m_pc = "exit")

\* exit with both deadlines abandoned: a request and a fetch cycle still running
C8_Witness ==
    /\ m_pc = "exit"
    /\ m_log.drain = "timeout"
    /\ m_log.join = "timeout"
    /\ h_pc \in {"count", "find"}
    /\ f_pc = "fetching"

\* C9: no signal ends the process abruptly, whenever it is delivered.
C9_AlwaysGraceful == m_pc # "killed"

----------------------------------------------------------------------------
(* Fetch cycles *)

\* a step that is one iteration of fetchPrices' loop: GetPrice and Create for
\* the coin at f_idx
FetchAttempt == f_idx \in 1..Len(coins) /\ f_reqs' = f_reqs + 1

\* C11: an iteration whose GetPrice and Create both succeed appends exactly
\* one row (that coin, the price returned, created at the time of the insert,
\* not deleted); an iteration in which either fails writes nothing; neither
\* changes a row already stored.
C11_OneRowPerSuccess ==
    [][FetchAttempt
        => /\ f_log'.kind = "saved"
                => /\ f_log'.price = Price65000
                   /\ Len(store') = Len(store) + 1
                   /\ store'[Len(store')].coin = coins[f_idx]
                   /\ store'[Len(store')].price = f_log'.price
                   /\ store'[Len(store')].created_at = now
                   /\ store'[Len(store')].deleted_at = Null
                   /\ \A i \in DOMAIN store : store'[i] = store[i]
           /\ f_log'.kind # "saved" => store' = store]_vars

\* ETH was saved again while the row of an earlier cycle is still stored
C11_Witness ==
    /\ f_log = Attempt(ETH, "saved", Price65000)
    /\ Len(store) = 2
    /\ store[1].coin = ETH
    /\ store[1].created_at < now
    /\ store[2].coin = ETH
    /\ store[2].created_at = now

\* C12: every iteration handles the coin at its position of pf.coins and
\* moves to the next position whatever it logged, a cycle starts at the first
\* coin and ends after the last; no loop goroutine ends before the context is
\* cancelled, and until then each can take its next tick (after a failed
\* fetch as after a failed cleanup).
C12_FailureIsolated ==
    [][/\ FetchAttempt
            => /\ f_log'.coin = coins[f_idx]
               /\ f_idx' = IF f_idx = Len(coins) THEN 0 ELSE f_idx + 1
               /\ f_pc' = IF f_idx = Len(coins) /\ f_pc = "fetching"
                          THEN "select" ELSE f_pc
       /\ (f_idx = 0 /\ f_idx' # 0) => f_idx' = 1
       /\ (f_idx # 0 /\ f_idx' # f_idx) => FetchAttempt
       /\ f_pc' = "done" => ctx_done'
       /\ c_pc' = "done" => ctx_done'
       /\ (Alive /\ ~ctx_done /\ f_pc = "select") => ENABLED FetchLoopTick
       /\ (Alive /\ ~ctx_done /\ c_pc = "select") => ENABLED CleanupLoopTick]_vars

\* the loop's cycle goes on to ARB after BTC was saved and ETH and SOL failed,
\* while the cleanup worker waits for its tick after a failed run
C12_Witness ==
    /\ f_pc = "fetching"
    /\ f_idx = 4
    /\ f_log = Attempt(SOL, "fetch_err", NoPrice)
    /\ Len(store) = 1
    /\ store[1].coin = BTC
    /\ c_pc = "select"
    /\ c_log.err
    /\ ~ctx_done

\* a fetchPrices run has returned
CycleComplete == f_idx = 0 /\ f_reqs > 0

\* C13 as stated: a complete fetch cycle has posted exactly one allMids
\* request.
C13_AsStated == CycleComplete => f_reqs = 1

\* C13 amended: one allMids request is posted per GetPrice call, so a fetch
\* cycle has posted as many requests as it has handled coins, and a complete
\* cycle one per tracked coin.
C13_OneRequestPerCall ==
    /\ f_idx # 0 => f_reqs = f_idx - 1
    /\ CycleComplete => f_reqs = Len(coins)

\* the initial fetch has returned with two rows stored and the workers have
\* been started
C13_Witness ==
    /\ f_pc = "select"
    /\ CycleComplete
    /\ f_reqs = Len(coins)
    /\ f_log.coin = AVAX
    /\ Len(store) = 2
    /\ c_pc = "initial"

----------------------------------------------------------------------------
(* Startup *)

\* a worker goroutine, the server goroutine or a request exists
Started == f_pc # "none" \/ c_pc # "none" \/ srv # "none" \/ h_pc # "idle"

\* the initial FetchPrices has handled every coin and returned
InitialFetchDone ==
    f_idx = 0 /\ f_reqs = Len(coins) /\ f_log.coin = coins[Len(coins)]

\* C14: the first worker goroutine, the server goroutine and the first request
\* come only once the initial FetchPrices has returned; until then no cleanup
\* runs; no coin is fetched before the migration has succeeded, and none at
\* all when it fails.
C14_StartupOrder ==
    [][/\ (Started' /\ ~Started) => (m_pc = "spawn" /\ InitialFetchDone)
       /\ m_pc' \in {"migrate", "initfetch", "fatal"} => ~Started'
       /\ CleanupRuns => m_pc \notin {"migrate", "initfetch", "fatal"}
       /\ h_pc' # "idle" => srv' # "none"
       /\ FetchAttempt => m_pc # "migrate"
       /\ m_pc' \in {"migrate", "fatal"}
            => (f_idx' = 0 /\ f_reqs' = 0 /\ store' = <<>>)]_vars

\* a request has been answered and a cleanup has run, on the two rows the
\* initial fetch stored
C14_Witness ==
    /\ m_pc = "wait"
    /\ srv = "listening"
    /\ f_pc = "select" /\ InitialFetchDone
    /\ c_pc = "select"
    /\ h_pc = "done" /\ h_resp.status = 200 /\ Len(h_resp.prices) = 1
    /\ Len(store) = 2

----------------------------------------------------------------------------
(* Cancellation of the loops *)

\* C15: a loop goroutine returns only from its select, with no cycle under
\* way, and only once the context is cancelled; once it is cancelled each loop
\* returns (or the process has ended first), given that its cycles run to
\* their end.
C15_CooperativeExit ==
    /\ [][/\ (f_pc' = "done" /\ f_pc # "done")
               => (f_pc = "select" /\ f_idx = 0 /\ ctx_done)
          /\ (c_pc' = "done" /\ c_pc # "done")
               => (c_pc = "select" /\ ctx_done)]_vars
    /\ (ctx_done /\ f_pc # "none") ~> (f_pc = "done" \/ ~Alive)
    /\ (ctx_done /\ c_pc # "none") ~> (c_pc = "done" \/ ~Alive)

\* both loops have returned, the fetcher after a cycle that was under way when
\* the context was cancelled, while main still waits for the server
C15_Witness ==
    /\ ctx_done
    /\ f_pc = "done" /\ f_reqs = Len(coins) /\ Len(store) = 2
    /\ c_pc = "done"
    /\ m_pc = "drain"
    /\ Alive

----------------------------------------------------------------------------
(* Rows over their life *)

\* C16: no step removes a row or changes a row's coin, price or created_at;
\* deleted_at changes only from null to the time of a cleanup run, and only
\* on a row created before that run's cutoff; a soft-deleted row stays as it
\* is.
C16_RowsImmutable ==
    [][/\ Len(store') >= Len(store)
       /\ \A i \in DOMAIN store :
             /\ store'[i].id = store[i].id
             /\ store'[i].coin = store[i].coin
             /\ store'[i].price = store[i].price
             /\ store'[i].created_at = store[i].created_at
             /\ store[i].deleted_at # Null => store'[i] = store[i]
             /\ store'[i].deleted_at # store[i].deleted_at
                  => /\ CleanupRuns
                     /\ store[i].deleted_at = Null
                     /\ store'[i].deleted_at = now
                     /\ store[i].created_at < now - RetentionDays]_vars

\* a soft-deleted BTC row, unchanged but for deleted_at, beside a row written
\* after the run that soft-deleted it
C16_Witness ==
    /\ Len(store) = 2
    /\ store[1].coin = BTC
    /\ store[1].price = Price65000
    /\ store[1].created_at = 0
    /\ store[1].deleted_at = now
    /\ store[2].deleted_at = Null
    /\ store[2].created_at = now
    /\ hist = "none"

----------------------------------------------------------------------------
(* The response's count *)

\* C17: in a 200 response, count is the number of entries of prices.
C17_CountMatches ==
    (h_pc = "done" /\ h_resp.status = 200) => h_resp.count = Len(h_resp.prices)

----------------------------------------------------------------------------
(* Cycles after the cancellation *)

\* C18: once the context is cancelled, no fetch cycle and no cleanup run
\* begins.
C18_NoCycleAfterStop ==
    [][ctx_done => /\ ~(f_pc = "select" /\ f_pc' = "fetching")
                   /\ ~CleanupRuns]_vars

----------------------------------------------------------------------------
(* GetPrice called twice *)

\* C19: two GetPrice calls for the same symbol against the same response
\* return the same result.
C19_Deterministic ==
    (gp_res # NoResult /\ gp_res2 # NoResult) => gp_res2 = gp_res

----------------------------------------------------------------------------
(* Retention against the query window *)

\* C20: a soft-deleted row is always older than 24 hours, and the list a
\* request reads holds every row of its coin created within the 24 hours
\* before the read.
C20_WindowKept ==
    [][/\ \A i \in DOMAIN store' :
             store'[i].deleted_at # Null
                => store'[i].created_at < now' - WindowDays
       /\ (h_pc = "find" /\ h_resp'.status = 200)
            => \A i \in DOMAIN store :
                  (store[i].coin = h_coin /\ store[i].created_at >= now - WindowDays)
                     => \E k \in 1..Len(h_resp'.prices) :
                           /\ h_resp'.prices[k].coin = store[i].coin
                           /\ h_resp'.prices[k].price = store[i].price
                           /\ h_resp'.prices[k].created_at = store[i].created_at]_vars

\* a cleanup run has just soft-deleted a row and a request then read the BTC
\* row written a day before the run
C20_Witness ==
    /\ h_pc = "done" /\ h_resp.status = 200 /\ h_coin = BTC
    /\ Len(h_resp.prices) = 1
    /\ h_resp.prices[1].created_at = now - WindowDays
    /\ h_resp.count = 1
    /\ ~c_log.err /\ c_log.affected = 1
    /\ \E i \in DOMAIN store : store[i].deleted_at = now

====
